---- MODULE Spec2Model ----
(***************************************************************************)
(* The `execute` command of cairo-foundry (src/cli/commands/execute.rs):   *)
(* the path validator is_json, the ExecuteOutput sink, ExecuteArgs::exec   *)
(* and the greater_than_hint callback, together with the cairo_rs run they *)
(* drive (load, step_hint / step_instruction, write_output).               *)
(***************************************************************************)
EXTENDS Integers, Sequences, FiniteSets, TLC

\* ------------------------------------------------------------------ bounds
MaxVal == 2      \* integer cells hold 0..MaxVal
MaxInstr == 2    \* instructions in a compiled program
MaxOut == 2      \* write calls write_output makes on the sink

\* --------------------------------------------------------------- constants
GT_HINT == "print(ids.a > ids.b)"
OTHER_HINT == "memory[ap] = unknown()"
NO_HINT == "<none>"

Exts == {"json", "JSON", "txt", ""}
Stems == {"prog", "lib"}
FileKinds == {"missing", "dir", "file"}
Paths == [stem : Stems, ext : Exts]

Vals == 0..MaxVal
NoneCell == [kind |-> "none", val |-> 0]
RelCell == [kind |-> "rel", val |-> 0]
IntCell(n) == [kind |-> "int", val |-> n]
Cells == {NoneCell, RelCell} \cup {IntCell(n) : n \in Vals}

\* The two local identifiers, as the compiler recorded them: `a` relative to
\* fp, `b` relative to ap at tracking offset 0.
RefOf ==
  [n \in {"a", "b"} |->
     IF n = "a"
       THEN [register |-> "FP", offset |-> -2, ap_offset |-> 0]
       ELSE [register |-> "AP", offset |-> -1, ap_offset |-> 0]]

InstrKinds ==
  {[hint |-> NO_HINT, ids |-> {}], [hint |-> OTHER_HINT, ids |-> {"a", "b"}]}
    \cup {[hint |-> GT_HINT, ids |-> s] : s \in SUBSET {"a", "b"}}

RECURSIVE SeqsUpTo(_, _)
SeqsUpTo(S, n) ==
  IF n = 0 THEN {<<>>}
  ELSE LET shorter == SeqsUpTo(S, n - 1)
       IN shorter \cup {Append(s, x) : s \in {t \in shorter : Len(t) = n - 1}, x \in S}

Programs == SeqsUpTo(InstrKinds, MaxInstr)

\* What the program file holds: whether it deserializes, its instructions and
\* the two cells the caller's frame holds for `a` and `b`.
Files == [loadable : BOOLEAN, instrs : Programs, cellA : Cells, cellB : Cells]
BadFiles ==
  {f \in Files : ~f.loadable /\ f.instrs = <<>> /\ f.cellA = NoneCell /\ f.cellB = NoneCell}
GoodFiles == {f \in Files : f.loadable}

Addrs == 0..(2 + MaxInstr)
EmptyMemory == [x \in Addrs |-> NoneCell]
InitialRegs == [ap |-> 2, fp |-> 2, pc |-> 0]

\* Bytes of program output the runner hands to the sink, one buffer per call.
Bufs == {<<"7", "\n">>, <<"9">>}

NoResult == [tag |-> "None", out |-> <<>>, msg |-> ""]

VARIABLES
  pc,             \* position of the command: start, rejected, exec, cairo_run,
                  \* write_output, done
  inputPath,      \* the path given to the command, <<>> before it is given
  origin,         \* how ExecuteArgs was built: "none", "cli", "direct"
  fsKind,         \* what the file system holds at the path
  args,           \* ExecuteArgs.program, <<>> before construction
  validated,      \* is_json was called on args.program and accepted it
  cliError,       \* the message is_json rejected the path with
  hint_processor, \* extra_hints of the BuiltinHintProcessor: hint source -> callback
  runState,       \* Unloaded, Loaded, Running, Halted, Failed
  cairoRet,       \* what cairo_run returned: none, Ok, Err
  program,        \* the loaded instruction stream
  ip,             \* index of the instruction being stepped
  phase,          \* within a step: "hint" (step_hint) then "instr" (step_instruction)
  memory,         \* address -> cell
  regs,           \* [ap, fp, pc]
  scopes,         \* ExecutionScope stack
  stdout,         \* the process's standard output
  output,         \* the ExecuteOutput sink, <<>> until created
  outputCreated,  \* line 84 ran
  written,        \* the buffers passed to write, in call order
  ioRet,          \* what the last sink call returned
  result,         \* what exec returned
  hintLog,        \* one record per callback invocation
  runCalls,       \* calls of cairo_run
  writeCalls,     \* calls of write_output
  writeRet        \* what write_output returned: none, Ok, Err

vars ==
  <<pc, inputPath, origin, fsKind, args, validated, cliError, hint_processor, runState,
    cairoRet, program, ip, phase, memory, regs, scopes, stdout, output, outputCreated,
    written, ioRet, result, hintLog, runCalls, writeCalls, writeRet>>

vmVars == <<memory, regs, scopes>>

Init ==
  /\ pc = "start"
  /\ inputPath = <<>>
  /\ origin = "none"
  /\ fsKind = "missing"
  /\ args = <<>>
  /\ validated = FALSE
  /\ cliError = ""
  /\ hint_processor = <<>>
  /\ runState = "Unloaded"
  /\ cairoRet = "none"
  /\ program = <<>>
  /\ ip = 0
  /\ phase = "hint"
  /\ memory = EmptyMemory
  /\ regs = InitialRegs
  /\ scopes = <<>>
  /\ stdout = <<>>
  /\ output = <<>>
  /\ outputCreated = FALSE
  /\ written = <<>>
  /\ ioRet = [tag |-> "none", n |-> 0]
  /\ result = NoResult
  /\ hintLog = <<>>
  /\ runCalls = 0
  /\ writeCalls = 0
  /\ writeRet = "none"

\* ------------------------------------------------------ the path validator
Ok(v) == [tag |-> "Ok", val |-> v, msg |-> ""]
Err(v, m) == [tag |-> "Err", val |-> v, msg |-> m]

\* path.exists(), path.is_file(), path.extension() on the file system's entry.
exists(kind) == kind # "missing"
is_file(kind) == kind = "file"
extension(path) == IF path.ext = "" THEN <<>> ELSE <<path.ext>>

\* is_json without the is_file test: a directory named x.json is accepted.
is_json_exists_only(path, kind) ==
  IF exists(kind)
    THEN IF extension(path) = <<"json">>
           THEN Ok(path)
           ELSE Err(path, "is not a json file")
    ELSE Err(path, "is not a valid file")

is_json(path, kind) ==
  IF exists(kind) /\ is_file(kind)
    THEN IF extension(path) = <<"json">>
           THEN Ok(path)
           ELSE Err(path, "is not a json file")
    ELSE Err(path, "is not a valid file")

\* ------------------------------------------------------------- the sink
\* impl Write for ExecuteOutput: both calls are Vec<u8>'s.
\* write that takes only the first byte of the buffer.
write_first_byte(sink, buf) ==
  [sink |-> sink \o SubSeq(buf, 1, 1), ret |-> [tag |-> "Ok", n |-> 1]]

write(sink, buf) == [sink |-> sink \o buf, ret |-> [tag |-> "Ok", n |-> Len(buf)]]
flush(sink) == [sink |-> sink, ret |-> [tag |-> "Flushed", n |-> 0]]

RECURSIVE Concat(_)
Concat(bufs) == IF bufs = <<>> THEN <<>> ELSE Head(bufs) \o Concat(Tail(bufs))

\* ------------------------------------------------------ variable resolver
ids_data(instr) == [n \in instr.ids |-> RefOf[n]]
ap_tracking(i) == [group |-> 0, offset |-> i - 1]

compute_addr(ref, rg, tracking) ==
  IF ref.register = "FP"
    THEN rg.fp + ref.offset
    ELSE rg.ap - (tracking.offset - ref.ap_offset) + ref.offset

get_integer_from_var_name(name, mem, rg, ids, tracking) ==
  IF name \notin DOMAIN ids
    THEN [tag |-> "Err", err |-> "UnknownIdentifier", addr |-> -1, val |-> 0]
    ELSE LET addr == compute_addr(ids[name], rg, tracking)
             cell == mem[addr]
         IN IF cell.kind = "none"
              THEN [tag |-> "Err", err |-> "UninitializedMemory", addr |-> addr, val |-> 0]
              ELSE IF cell.kind = "rel"
                     THEN [tag |-> "Err", err |-> "TypeMismatch", addr |-> addr, val |-> 0]
                     ELSE [tag |-> "Ok", err |-> "", addr |-> addr, val |-> cell.val]

\* ------------------------------------------------------------- the hint
Display(b) == IF b THEN <<"t", "r", "u", "e">> ELSE <<"f", "a", "l", "s", "e">>
println(out, text) == out \o text \o <<"\n">>

HintRet(ret, err, mem, rg, sc, out, resolved) ==
  [ret |-> ret, err |-> err, memory |-> mem, regs |-> rg, scopes |-> sc,
   stdout |-> out, resolved |-> resolved]

\* The hint with >= for >.
greater_than_hint_ge(mem, rg, sc, ids, tracking, out) ==
  LET a == get_integer_from_var_name("a", mem, rg, ids, tracking)
  IN IF a.tag = "Err"
       THEN HintRet("Err", a.err, mem, rg, sc, out, <<"a">>)
       ELSE LET b == get_integer_from_var_name("b", mem, rg, ids, tracking)
            IN IF b.tag = "Err"
                 THEN HintRet("Err", b.err, mem, rg, sc, out, <<"a", "b">>)
                 ELSE HintRet("Ok", "", mem, rg, sc, println(out, Display(a.val >= b.val)),
                              <<"a", "b">>)

\* The hint with unwrap_or_default for the second `?`: a `b` that does not
\* resolve counts as 0 and the comparison is printed.
greater_than_hint_default_b(mem, rg, sc, ids, tracking, out) ==
  LET a == get_integer_from_var_name("a", mem, rg, ids, tracking)
  IN IF a.tag = "Err"
       THEN HintRet("Err", a.err, mem, rg, sc, out, <<"a">>)
       ELSE LET b == get_integer_from_var_name("b", mem, rg, ids, tracking)
            IN HintRet("Ok", "", mem, rg, sc, println(out, Display(a.val > b.val)),
                       <<"a", "b">>)

\* The hint storing its result in the scopes before printing it.
greater_than_hint_scoped(mem, rg, sc, ids, tracking, out) ==
  LET a == get_integer_from_var_name("a", mem, rg, ids, tracking)
  IN IF a.tag = "Err"
       THEN HintRet("Err", a.err, mem, rg, sc, out, <<"a">>)
       ELSE LET b == get_integer_from_var_name("b", mem, rg, ids, tracking)
            IN IF b.tag = "Err"
                 THEN HintRet("Err", b.err, mem, rg, sc, out, <<"a", "b">>)
                 ELSE HintRet("Ok", "", mem, rg, Append(sc, a.val > b.val),
                              println(out, Display(a.val > b.val)), <<"a", "b">>)

\* The callback sees the VM proxy, the scopes proxy, the reference table and the
\* tracking data; `out` is the process's standard output, which println! writes.
greater_than_hint(mem, rg, sc, ids, tracking, out) ==
  LET a == get_integer_from_var_name("a", mem, rg, ids, tracking)
  IN IF a.tag = "Err"
       THEN HintRet("Err", a.err, mem, rg, sc, out, <<"a">>)
       ELSE LET b == get_integer_from_var_name("b", mem, rg, ids, tracking)
            IN IF b.tag = "Err"
                 THEN HintRet("Err", b.err, mem, rg, sc, out, <<"a", "b">>)
                 ELSE HintRet("Ok", "", mem, rg, sc, println(out, Display(a.val > b.val)),
                              <<"a", "b">>)

\* ---------------------------------------------------------- the registry
new_empty == <<>>
add_hint(hp, source, callback) ==
  [k \in (DOMAIN hp) \cup {source} |-> IF k = source THEN callback ELSE hp[k]]

\* Lines 71-73: the processor exec hands to cairo_run.
BuildHintProcessor == add_hint(new_empty, GT_HINT, "greater_than_hint")

\* ------------------------------------------------ what exec returns
\* Lines 76-82: the run's error, mapped to a message; `?` returns it.
RunFailed(sink) == [tag |-> "Err", out |-> <<>>, msg |-> "failed to run the program"]
\* The print error returned together with what the sink holds.
PrintFailedPartial(sink) ==
  [tag |-> "Err", out |-> <<sink>>, msg |-> "failed to print the program output"]
\* Lines 86-92: write_output's error, mapped to a message; `?` returns it.
PrintFailed(sink) == [tag |-> "Err", out |-> <<>>, msg |-> "failed to print the program output"]
\* Line 94.
Returned(sink) == [tag |-> "Ok", out |-> <<sink>>, msg |-> ""]

\* ------------------------------------------------------------- actions
\* clap parses --program with value_parser = is_json (lines 26-27).
ParseArgs ==
  /\ pc = "start"
  /\ \E p \in Paths, k \in FileKinds :
       LET r == is_json(p, k)
       IN /\ inputPath' = <<p>>
          /\ fsKind' = k
          /\ origin' = "cli"
          /\ IF r.tag = "Ok"
               THEN /\ args' = <<r.val>>
                    /\ validated' = TRUE
                    /\ cliError' = cliError
                    /\ pc' = "exec"
               ELSE /\ args' = <<>>
                    /\ validated' = FALSE
                    /\ cliError' = r.msg
                    /\ pc' = "rejected"
  /\ UNCHANGED <<hint_processor, runState, cairoRet, program, ip, phase, memory, regs,
                 scopes, stdout, output, outputCreated, written, ioRet, result, hintLog,
                 runCalls, writeCalls, writeRet>>

\* The unit tests build ExecuteArgs from a fixture path, an existing .json file
\* (lines 116-120, 126-130, 136-138, 147-151, 157-161).
ConstructDirect ==
  /\ pc = "start"
  /\ \E p \in {q \in Paths : q.ext = "json"} :
       /\ inputPath' = <<p>>
       /\ args' = <<p>>
       /\ fsKind' = "file"
  /\ origin' = "direct"
  /\ pc' = "exec"
  /\ UNCHANGED <<validated, cliError, hint_processor, runState, cairoRet, program, ip,
                 phase, memory, regs, scopes, stdout, output, outputCreated, written, ioRet,
                 result, hintLog, runCalls, writeCalls, writeRet>>

\* The sink created before cairo_run is called.
ExecBuildHintsWithSink ==
  /\ pc = "exec"
  /\ hint_processor' = BuildHintProcessor
  /\ outputCreated' = TRUE
  /\ pc' = "cairo_run"
  /\ UNCHANGED <<inputPath, origin, fsKind, args, validated, cliError, runState, cairoRet,
                 program, ip, phase, memory, regs, scopes, stdout, output, written, ioRet,
                 result, hintLog, runCalls, writeCalls, writeRet>>

\* exec, lines 71-73.
ExecBuildHints ==
  /\ pc = "exec"
  /\ hint_processor' = BuildHintProcessor
  /\ pc' = "cairo_run"
  /\ UNCHANGED <<inputPath, origin, fsKind, args, validated, cliError, runState, cairoRet,
                 program, ip, phase, memory, regs, scopes, stdout, output, outputCreated,
                 written, ioRet, result, hintLog, runCalls, writeCalls, writeRet>>

\* cairo_run, first part: deserialize the program file into a fresh memory and
\* register state positioned at "main".
CairoRunLoad ==
  /\ pc = "cairo_run"
  /\ runState = "Unloaded"
  /\ cairoRet = "none"
  /\ runCalls' = runCalls + 1
  /\ \E f \in BadFiles \cup GoodFiles :
       IF f.loadable
         THEN /\ runState' = "Loaded"
              /\ program' = f.instrs
              /\ memory' = [EmptyMemory EXCEPT ![0] = f.cellA, ![1] = f.cellB]
              /\ regs' = InitialRegs
              /\ cairoRet' = cairoRet
         ELSE /\ cairoRet' = "Err"
              /\ UNCHANGED <<runState, program, memory, regs>>
  /\ UNCHANGED <<pc, inputPath, origin, fsKind, args, validated, cliError, hint_processor,
                 ip, phase, scopes, stdout, output, outputCreated, written, ioRet, result,
                 hintLog, writeCalls, writeRet>>

RunStart ==
  /\ pc = "cairo_run"
  /\ runState = "Loaded"
  /\ runState' = "Running"
  /\ ip' = 1
  /\ phase' = "hint"
  /\ UNCHANGED <<pc, inputPath, origin, fsKind, args, validated, cliError, hint_processor,
                 cairoRet, program, memory, regs, scopes, stdout, output, outputCreated,
                 written, ioRet, result, hintLog, runCalls, writeCalls, writeRet>>

Stepping == pc = "cairo_run" /\ runState = "Running" /\ ip \in 1..Len(program)

\* step_hint on an instruction that carries no hint text.
SkipNoHint ==
  /\ Stepping
  /\ phase = "hint"
  /\ program[ip].hint = NO_HINT
  /\ phase' = "instr"
  /\ UNCHANGED <<pc, inputPath, origin, fsKind, args, validated, cliError, hint_processor,
                 runState, cairoRet, program, ip, memory, regs, scopes, stdout, output,
                 outputCreated, written, ioRet, result, hintLog, runCalls, writeCalls,
                 writeRet>>

\* step_hint on an instruction whose hint text has a binding: the callback runs
\* once; its error ends the run.
DispatchRegistered ==
  /\ Stepping
  /\ phase = "hint"
  /\ program[ip].hint \in DOMAIN hint_processor
  /\ hint_processor[program[ip].hint] = "greater_than_hint"
  /\ LET ids == ids_data(program[ip])
         tr == ap_tracking(ip)
         r == greater_than_hint(memory, regs, scopes, ids, tr, stdout)
     IN /\ memory' = r.memory
        /\ regs' = r.regs
        /\ scopes' = r.scopes
        /\ stdout' = r.stdout
        /\ hintLog' = Append(hintLog,
             [ip |-> ip, ret |-> r.ret, err |-> r.err, resolved |-> r.resolved,
              a |-> get_integer_from_var_name("a", memory, regs, ids, tr),
              b |-> get_integer_from_var_name("b", memory, regs, ids, tr),
              emitted |-> SubSeq(r.stdout, Len(stdout) + 1, Len(r.stdout)),
              sinkCreated |-> outputCreated])
        /\ IF r.ret = "Ok"
             THEN /\ phase' = "instr"
                  /\ UNCHANGED <<runState, cairoRet>>
             ELSE /\ runState' = "Failed"
                  /\ cairoRet' = "Err"
                  /\ phase' = phase
  /\ UNCHANGED <<pc, inputPath, origin, fsKind, args, validated, cliError, hint_processor,
                 program, ip, output, outputCreated, written, ioRet, result, runCalls,
                 writeCalls, writeRet>>

\* step_hint on an instruction whose hint text has no binding. The policy is the
\* hint processor's, which exec only calls: the hint is passed over, or the run
\* ends with an unknown-hint error.
DispatchUnregistered ==
  /\ Stepping
  /\ phase = "hint"
  /\ program[ip].hint # NO_HINT
  /\ program[ip].hint \notin DOMAIN hint_processor
  /\ \E inert \in BOOLEAN :
       IF inert
         THEN /\ phase' = "instr"
              /\ UNCHANGED <<runState, cairoRet>>
         ELSE /\ runState' = "Failed"
              /\ cairoRet' = "Err"
              /\ phase' = phase
  /\ UNCHANGED <<pc, inputPath, origin, fsKind, args, validated, cliError, hint_processor,
                 program, ip, memory, regs, scopes, stdout, output, outputCreated, written,
                 ioRet, result, hintLog, runCalls, writeCalls, writeRet>>

\* step_instruction: the interpreter advances ap and pc and fills the cell at
\* ap, or fails.
Interpret ==
  /\ Stepping
  /\ phase = "instr"
  /\ \E ok \in BOOLEAN :
       IF ok
         THEN /\ memory' = [memory EXCEPT ![regs.ap] = IntCell(0)]
              /\ regs' = [regs EXCEPT !.ap = @ + 1, !.pc = @ + 1]
              /\ ip' = ip + 1
              /\ phase' = "hint"
              /\ UNCHANGED <<runState, cairoRet>>
         ELSE /\ runState' = "Failed"
              /\ cairoRet' = "Err"
              /\ UNCHANGED <<memory, regs, ip, phase>>
  /\ UNCHANGED <<pc, inputPath, origin, fsKind, args, validated, cliError, hint_processor,
                 program, scopes, stdout, output, outputCreated, written, ioRet, result,
                 hintLog, runCalls, writeCalls, writeRet>>

\* The program counter reached the end of main.
Halt ==
  /\ pc = "cairo_run"
  /\ runState = "Running"
  /\ ip > Len(program)
  /\ runState' = "Halted"
  /\ cairoRet' = "Ok"
  /\ UNCHANGED <<pc, inputPath, origin, fsKind, args, validated, cliError, hint_processor,
                 program, ip, phase, memory, regs, scopes, stdout, output, outputCreated,
                 written, ioRet, result, hintLog, runCalls, writeCalls, writeRet>>

\* exec, lines 75-82: cairo_run returned an error.
ExecRunErr ==
  /\ pc = "cairo_run"
  /\ cairoRet = "Err"
  /\ result' = RunFailed(output)
  /\ pc' = "done"
  /\ UNCHANGED <<inputPath, origin, fsKind, args, validated, cliError, hint_processor,
                 runState, cairoRet, program, ip, phase, memory, regs, scopes, stdout,
                 output, outputCreated, written, ioRet, hintLog, runCalls, writeCalls,
                 writeRet>>

\* Lines 84-86 reached whatever cairo_run returned (its error dropped).
NewOutputAnyRet ==
  /\ pc = "cairo_run"
  /\ cairoRet # "none"
  /\ output' = <<>>
  /\ outputCreated' = TRUE
  /\ writeCalls' = writeCalls + 1
  /\ pc' = "write_output"
  /\ UNCHANGED <<inputPath, origin, fsKind, args, validated, cliError, hint_processor,
                 runState, cairoRet, program, ip, phase, memory, regs, scopes, stdout,
                 written, ioRet, result, hintLog, runCalls, writeRet>>

\* exec, lines 84-86: cairo_run returned the runner; the sink is created and
\* write_output is called on it.
NewOutput ==
  /\ pc = "cairo_run"
  /\ cairoRet = "Ok"
  /\ output' = <<>>
  /\ outputCreated' = TRUE
  /\ writeCalls' = writeCalls + 1
  /\ pc' = "write_output"
  /\ UNCHANGED <<inputPath, origin, fsKind, args, validated, cliError, hint_processor,
                 runState, cairoRet, program, ip, phase, memory, regs, scopes, stdout,
                 written, ioRet, result, hintLog, runCalls, writeRet>>

\* write_output writes one buffer of program output to the sink.
WriteChunk ==
  /\ pc = "write_output"
  /\ Len(written) < MaxOut
  /\ \E buf \in Bufs :
       LET w == write(output, buf)
       IN /\ output' = w.sink
          /\ ioRet' = w.ret
          /\ written' = Append(written, buf)
  /\ UNCHANGED <<pc, inputPath, origin, fsKind, args, validated, cliError, hint_processor,
                 runState, cairoRet, program, ip, phase, memory, regs, scopes, stdout,
                 outputCreated, result, hintLog, runCalls, writeCalls, writeRet>>

FlushSink ==
  /\ pc = "write_output"
  /\ LET w == flush(output)
     IN /\ output' = w.sink
        /\ ioRet' = w.ret
  /\ UNCHANGED <<pc, inputPath, origin, fsKind, args, validated, cliError, hint_processor,
                 runState, cairoRet, program, ip, phase, memory, regs, scopes, stdout,
                 outputCreated, written, result, hintLog, runCalls, writeCalls, writeRet>>

\* exec, lines 86-92: write_output failed, possibly after some writes.
ExecPrintErr ==
  /\ pc = "write_output"
  /\ writeRet' = "Err"
  /\ result' = PrintFailed(output)
  /\ pc' = "done"
  /\ UNCHANGED <<inputPath, origin, fsKind, args, validated, cliError, hint_processor,
                 runState, cairoRet, program, ip, phase, memory, regs, scopes, stdout,
                 output, outputCreated, written, ioRet, hintLog, runCalls, writeCalls>>

\* exec, line 94: write_output succeeded.
ExecOk ==
  /\ pc = "write_output"
  /\ writeRet' = "Ok"
  /\ result' = Returned(output)
  /\ pc' = "done"
  /\ UNCHANGED <<inputPath, origin, fsKind, args, validated, cliError, hint_processor,
                 runState, cairoRet, program, ip, phase, memory, regs, scopes, stdout,
                 output, outputCreated, written, ioRet, hintLog, runCalls, writeCalls>>

Next ==
  \/ ParseArgs
  \/ ConstructDirect
  \/ ExecBuildHints
  \/ CairoRunLoad
  \/ RunStart
  \/ SkipNoHint
  \/ DispatchRegistered
  \/ DispatchUnregistered
  \/ Interpret
  \/ Halt
  \/ ExecRunErr
  \/ NewOutput
  \/ WriteChunk
  \/ FlushSink
  \/ ExecPrintErr
  \/ ExecOk

Spec == Init /\ [][Next]_vars

\* ------------------------------------------------------------- helpers
TrueLine == <<"t", "r", "u", "e", "\n">>
FalseLine == <<"f", "a", "l", "s", "e", "\n">>

IsInfix(t, u) ==
  \E k \in 0..(Len(u) - Len(t)) : SubSeq(u, k + 1, k + Len(t)) = t

HintEntries == {hintLog[i] : i \in 1..Len(hintLog)}

\* ------------------------------------------------------------- claims

\* C1: whenever the hint bound to "print(ids.a > ids.b)" is dispatched on an
\* instruction whose `a` and `b` resolve to integers, the callback resolves
\* both, returns Ok and emits exactly one line: `true` when a > b, `false`
\* otherwise (a = b included); the values are those the program holds.
C1_ComparisonEmitted ==
  \A i \in 1..Len(hintLog) :
    LET e == hintLog[i]
    IN (e.a.tag = "Ok" /\ e.b.tag = "Ok") =>
         /\ e.ret = "Ok"
         /\ e.resolved = <<"a", "b">>
         /\ memory[e.a.addr] = IntCell(e.a.val)
         /\ memory[e.b.addr] = IntCell(e.b.val)
         /\ (e.a.val > e.b.val => e.emitted = TrueLine)
         /\ (e.a.val <= e.b.val => e.emitted = FalseLine)

C1_Witness ==
  /\ Len(hintLog) = 2
  /\ hintLog[1].ret = "Ok"
  /\ hintLog[1].a.val = hintLog[1].b.val
  /\ hintLog[2].emitted = FalseLine

\* C2 (as claimed): after a successful run in which the comparison hint was
\* dispatched, the text it emitted is contained in the sink exec returned and
\* the process's standard output received nothing.
C2_HintTextInSink ==
  (pc = "done" /\ result.tag = "Ok") =>
    \A e \in HintEntries :
      e.ret = "Ok" => (stdout = <<>> /\ IsInfix(e.emitted, result.out[1]))

\* C3: exec returns Ok only when cairo_run and write_output both succeeded,
\* and then returns the whole sink; when the run fails, or write_output fails
\* (also after some writes), it returns Err with no sink content. cairo_run
\* and write_output are called at most once each.
C3_AllOrNothing ==
  /\ runCalls <= 1
  /\ writeCalls <= 1
  /\ pc = "done" =>
       /\ result.tag \in {"Ok", "Err"}
       /\ (result.tag = "Ok") <=> (cairoRet = "Ok" /\ writeRet = "Ok")
       /\ result.tag = "Ok" => (result.out = <<output>> /\ output = Concat(written))
       /\ result.tag = "Err" => result.out = <<>>
       /\ runCalls = 1
       /\ writeCalls = (IF cairoRet = "Ok" THEN 1 ELSE 0)

C3_Witness ==
  /\ pc = "done"
  /\ result.tag = "Err"
  /\ cairoRet = "Ok"
  /\ writeRet = "Err"
  /\ Len(output) > 0

\* C4: when `a` or `b` does not resolve, the callback returns that error and
\* emits nothing, `b` is not resolved after `a` failed, no callback runs after
\* the failed one, the run is Failed, the sink is never created and exec
\* returns Err with no output.
C4_ResolveFailureAborts ==
  \A i \in 1..Len(hintLog) :
    LET e == hintLog[i]
    IN /\ e.a.tag = "Err" =>
            (e.ret = "Err" /\ e.err = e.a.err /\ e.resolved = <<"a">>)
       /\ (e.a.tag = "Ok" /\ e.b.tag = "Err") =>
            (e.ret = "Err" /\ e.err = e.b.err /\ e.resolved = <<"a", "b">>)
       /\ e.ret = "Err" =>
            /\ e.emitted = <<>>
            /\ i = Len(hintLog)
            /\ \A j \in 1..Len(hintLog) : hintLog[j].ip = e.ip => j = i
            /\ runState = "Failed"
            /\ cairoRet = "Err"
            /\ ip = e.ip
            /\ ~outputCreated
            /\ writeCalls = 0
            /\ pc \in {"cairo_run", "done"}
            /\ pc = "done" => (result.tag = "Err" /\ result.out = <<>>)

C4_Witness ==
  /\ pc = "done"
  /\ Len(hintLog) = 2
  /\ hintLog[2].ret = "Err"
  /\ hintLog[2].err = "UnknownIdentifier"
  /\ hintLog[2].resolved = <<"a", "b">>
  /\ stdout = TrueLine

\* C6: a program file that does not load makes exec return Err: no callback
\* was dispatched, no instruction was stepped, and no sink was created or
\* returned.
C6_LoadFailure ==
  (cairoRet = "Err" /\ runState = "Unloaded") =>
    /\ hintLog = <<>>
    /\ stdout = <<>>
    /\ ip = 0
    /\ program = <<>>
    /\ memory = EmptyMemory
    /\ regs = InitialRegs
    /\ ~outputCreated
    /\ output = <<>>
    /\ writeCalls = 0
    /\ pc \in {"cairo_run", "done"}
    /\ pc = "done" => (result.tag = "Err" /\ result.out = <<>>)

C6_Witness ==
  /\ pc = "done"
  /\ runState = "Unloaded"
  /\ cairoRet = "Err"
  /\ result.tag = "Err"

\* C7: the run moves Loaded -> Running -> {Halted, Failed} and never leaves
\* Halted or Failed; cairo_run is called once and the program is loaded once;
\* the sink is created, written and returned only in Halted, after cairo_run
\* returned Ok.
C7_RunStateMachine ==
  [][/\ runState = "Unloaded" => runState' \in {"Unloaded", "Loaded"}
     /\ runState = "Loaded" => runState' \in {"Loaded", "Running"}
     /\ runState = "Running" => runState' \in {"Running", "Halted", "Failed"}
     /\ runState = "Halted" => runState' = "Halted"
     /\ runState = "Failed" => runState' = "Failed"
     /\ runCalls' <= 1
     /\ program' # program => (runState = "Unloaded" /\ runCalls = 0)
     /\ (outputCreated' # outputCreated \/ output' # output \/ writeCalls' # writeCalls
         \/ pc' = "write_output" \/ result'.out # <<>>)
          => (runState = "Halted" /\ runState' = "Halted" /\ cairoRet = "Ok")]_vars

C7_Witness ==
  /\ runState = "Halted"
  /\ pc = "done"
  /\ result.tag = "Ok"
  /\ Len(output) > 0
  /\ Len(hintLog) > 0

\* C8: the sink starts empty; every write appends the whole buffer at the end,
\* reports its length and leaves the bytes before it unchanged; flush changes
\* nothing; the sink is the concatenation of the written buffers in call
\* order, and that is what a successful exec returns.
C8_SinkAppendOnly ==
  [][/\ (outputCreated' /\ ~outputCreated) => output' = <<>>
     /\ written' # written =>
          \E buf \in Bufs :
            /\ written' = Append(written, buf)
            /\ output' = output \o buf
            /\ SubSeq(output', 1, Len(output)) = output
            /\ ioRet' = [tag |-> "Ok", n |-> Len(buf)]
     /\ written' = written => output' = output
     /\ output' = Concat(written')
     /\ result'.tag = "Ok" => result'.out = <<Concat(written')>>]_vars

C8_Witness ==
  /\ pc = "done"
  /\ result.tag = "Ok"
  /\ Len(written) = 2
  /\ written[1] # written[2]
  /\ ioRet.tag = "Flushed"

\* C9 (as claimed): is_json accepts exactly the existing regular files with
\* extension "json", rejects with the two messages as stated, and every path
\* on which the loader is invoked has passed is_json.
C9_EveryLoadValidated ==
  /\ origin = "cli" =>
       /\ (pc # "rejected") <=> (fsKind = "file" /\ inputPath[1].ext = "json")
       /\ pc # "rejected" => args = inputPath
       /\ (pc = "rejected" /\ fsKind # "file") => cliError = "is not a valid file"
       /\ (pc = "rejected" /\ fsKind = "file") => cliError = "is not a json file"
  /\ runCalls > 0 => validated

\* C9 (amended): is_json as claimed; a path the command-line parser produced
\* has passed is_json before the loader is invoked on it, and a path on which
\* the loader is invoked without having passed is_json comes from an
\* ExecuteArgs built directly.
C9_CliLoadValidated ==
  /\ origin = "cli" =>
       /\ (pc # "rejected") <=> (fsKind = "file" /\ inputPath[1].ext = "json")
       /\ pc # "rejected" => args = inputPath
       /\ (pc = "rejected" /\ fsKind # "file") => cliError = "is not a valid file"
       /\ (pc = "rejected" /\ fsKind = "file") => cliError = "is not a json file"
       /\ pc = "rejected" => (args = <<>> /\ runCalls = 0 /\ result = NoResult)
       /\ runCalls > 0 => validated
  /\ (runCalls > 0 /\ ~validated) => origin = "direct"
  /\ validated => (fsKind = "file" /\ args[1].ext = "json")

C9_Witness ==
  /\ origin = "cli"
  /\ validated
  /\ runCalls = 1
  /\ pc = "done"

\* C10: an invocation of the comparison callback, successful or not, leaves
\* memory, the registers, the scopes, the program's reference tables and
\* tracking data as they were, so `a` and `b` resolve after the call to the
\* addresses and values they resolved to before it.
C10_HintReadOnly ==
  [][hintLog' # hintLog =>
       /\ memory' = memory
       /\ regs' = regs
       /\ scopes' = scopes
       /\ program' = program
       /\ ip' = ip
       /\ \A n \in {"a", "b"} :
            get_integer_from_var_name(n, memory', regs', ids_data(program'[ip']), ap_tracking(ip'))
              = get_integer_from_var_name(n, memory, regs, ids_data(program[ip]), ap_tracking(ip))]_vars

C10_Witness ==
  /\ Len(hintLog) = 2
  /\ hintLog[1].ret = "Ok"
  /\ hintLog[2].ret = "Err"
  /\ hintLog[2].err = "UnknownIdentifier"
  /\ hintLog[2].resolved = <<"a">>

====
